---- MODULE Spec2Model ----
(***************************************************************************)
(* A model of the store created by createStoreState (src/src/index.ts,     *)
(* lines 160-448): the state record, the key-subscription index, the       *)
(* equality registry, the batching controller and the middleware chain.    *)
(*                                                                         *)
(* Every public operation of the store is one action.  Callbacks supplied  *)
(* by the caller (listeners, interceptors, equality predicates) are        *)
(* inputs: a listener is a counter of its invocations, an interceptor's    *)
(* behaviour during one write is drawn from Behaviours.                    *)
(***************************************************************************)
EXTENDS Integers, Sequences, FiniteSets, TLC

\* ------------------------------------------------------------------ bounds
MaxMw == 3          \* addMiddleware calls in one behaviour
MaxDepth == 2       \* batch calls nested in one another
MaxChain == 2       \* addMiddleware calls where predicates and batches are present

\* ------------------------------------------------------------------ values
\* JavaScript values held by the fields: numbers (NaN included) and objects.
\* An object is its identity (ref) and its content (the fields x and y).
Num(n) == <<"num", n>>
NaN == <<"nan">>
Obj(r, c) == <<"obj", r, c>>
IsObj(v) == v[1] = "obj"
RefOf(v) == v[2]
ContentOf(v) == v[3]

Keys == {"a", "b"}
\* for-in enumerates an object literal's own keys in insertion order; the
\* callers of the model write their literals in this order.
KeyOrder == <<"a", "b">>
Listeners == {"l1", "l2", "oc"}
NumVals == {Num(0), Num(1), NaN}
\* the contents <<x, y>> of the objects callers build
Contents == {<<x, 1>> : x \in 0..1}
\* the partial objects passed to merge and mergeSet: {}, {x: 0}, {x: 1};
\* -1 stands for a field the partial object does not have
Partials == {<<x, -1>> : x \in -1..1}

\* Object.is: SameValue. NaN is the same value as NaN, an object only as itself.
ObjectIsStrict(x, y) == x = y /\ x # NaN
ObjectIs(x, y) == x = y

\* the null of batchedKeys, and a Set held by it
Null == <<>>
Some(S) == <<S>>

\* the prefix the persistence middleware is created with, and `${persistKey}:${key}`
persistKey == "app"
StorageKey(key) == <<persistKey, key>>
\* JSON.stringify: NaN is written as null, an object as its content
stringify(v) ==
  IF v = NaN THEN <<"null">>
  ELSE IF IsObj(v) THEN <<"{", ContentOf(v)[1], ContentOf(v)[2], "}">>
  ELSE <<"n", v[2]>>
\* a storage object that holds nothing
NoStorage == [sk \in {StorageKey(k) : k \in Keys} |-> Null]

VARIABLES
  state,            \* the state record: field -> value
  initialState,     \* _initialState, the shallow copy taken at construction
  keyListeners,     \* field -> set of listeners
  equalityRegistry, \* field -> predicate name, or "none"
  batchedKeys,      \* Null, or Some(set of fields changed in the open batch)
  batchStack,       \* the batch calls now executing, outermost first
  middleware,       \* the middleware array: sequence of [id, keys]
  nextId,           \* identity of the next middlewareItem
  removed,          \* the ids whose removal handle has been invoked
  handles,          \* the unsubscribe functions returned so far: <<keys, listener>>
  unsubscribed,     \* the unsubscribe functions invoked so far
  stateRef,         \* the identity of the object that get() returns
  op,               \* the last operation: its input and what it did
  calls,            \* listener -> invocations during the last operation
  watch,            \* the onChange registration: its closure variables and callback invocations
  other,            \* a second store instance
  debouncedNotifiers, \* field -> Null, or Some(delay the field's notifier was created with)
  timers,           \* field -> Null, or Some(time left on the notifier's pending timeout)
  debouncing,       \* whether the store is the one whose set takes a debounceDelay
  storage,          \* the storage object: storage key -> Null, or Some(text)
  lastDebounced     \* field -> Null, or Some(delay asked by, time elapsed since) the last debounced write

vars == <<state, initialState, keyListeners, equalityRegistry, batchedKeys,
          batchStack, middleware, nextId, removed, handles, unsubscribed,
          stateRef, op, calls, watch, other, debouncedNotifiers, timers, lastDebounced,
          storage, debouncing>>

\* the variables of the store with debounced notification
debounceVars == <<debouncedNotifiers, timers, lastDebounced, debouncing>>

NoCalls == [l \in Listeners |-> 0]

\* ------------------------------------------------------- caller callbacks
\* Equality predicates a caller may register with skipSetWhen.
\* "throws" is a predicate that throws instead of returning
Predicates == {"always", "sameContent", "throws"}
EqThrows(pred) == pred = "throws"
EqHolds(pred, prev, next) ==
  CASE pred = "always" -> TRUE
    [] pred = "throws" -> FALSE
    [] pred = "sameContent" ->
         IsObj(prev) /\ IsObj(next) /\ ContentOf(prev) = ContentOf(next)

\* A replacement update an interceptor may pass to next(), computed from the
\* update it was handed.
Rewrites == {"dropA", "onlyA1"}
Without(u, k) == [j \in (DOMAIN u) \ {k} |-> u[j]]
Rewrite(r, update) ==
  CASE r = "dropA" -> Without(update, "a")
    [] r = "onlyA1" -> [j \in {"a"} |-> Num(1)]

\* What an interceptor does during one invocation:
\*   remove : the id whose removal handle it invokes first (0: none)
\*   throws : "before" (throws without calling next), "after" (throws after
\*            its calls of next) or "no"
\*   nexts  : how many times it calls next; arg, arg2: the arguments of the
\*            first and second call ("none": no argument)
Beh(remove, nexts, arg, arg2, throws) ==
  [remove |-> remove, nexts |-> nexts, arg |-> arg, arg2 |-> arg2, throws |-> throws,
   persist |-> "no"]
Pass == Beh(0, 1, "none", "none", "no")
Block == Beh(0, 0, "none", "none", "no")
Twice == Beh(0, 2, "none", "onlyA1", "no")
ThrowBefore == Beh(0, 0, "none", "none", "before")
ThrowAfter == Beh(0, 1, "none", "none", "after")
\* the entries whose removal handle an interceptor may hold: the first two
RemoveTargets == {1, 2}
Behaviours ==
  {Pass, Block, Twice, ThrowBefore, ThrowAfter}
    \cup {Beh(0, 1, r, "none", "no") : r \in Rewrites}
    \cup {Beh(t, 1, "none", "none", "no") : t \in RemoveTargets}

\* ------------------------------------------------------------ the store
\* The context of one operation: the store's mutable parts and the closure
\* variables of set (currentUpdate, middlewareIndex, blocked), with a record
\* of what happened: the stages reached, the number of commits, the fields
\* they changed.
Context(update) ==
  [state |-> state, stateRef |-> stateRef, batchedKeys |-> batchedKeys,
   middleware |-> middleware,
   removed |-> removed, calls |-> NoCalls,
   currentUpdate |-> update, middlewareIndex |-> 0, blocked |-> FALSE,
   stages |-> <<>>, commits |-> 0, changed |-> {}, raised |-> FALSE,
   consulted |-> <<>>, observed |-> {}, storage |-> storage, setItems |-> <<>>]

\* keyListeners[key]?.forEach(listener => listener())
forEachListener(S, c) == [l \in Listeners |-> c[l] + IF l \in S THEN 1 ELSE 0]

\* the listeners a notification of keys goes through
listenersOf(keys) == {l \in Listeners : \E k \in keys : l \in keyListeners[k]}

\* a notifyKey that does not look at the batch
notifyKeyNow(c, key) ==
  [c EXCEPT !.calls = forEachListener(keyListeners[key], c.calls)]

\* notifyKey
notifyKey(c, key) ==
  IF c.batchedKeys # Null
  THEN [c EXCEPT !.batchedKeys = Some(c.batchedKeys[1] \cup {key})]
  ELSE [c EXCEPT !.calls = forEachListener(keyListeners[key], c.calls),
                 !.observed = IF keyListeners[key] # {} THEN @ \cup {c.state} ELSE @]

\* applySingleKey
\* an assignment that builds a new state record: state = { ...state, [key]: value }
assignCopy(c, key, value) ==
  [c EXCEPT !.state[key] = value, !.stateRef = @ + 1, !.changed = @ \cup {key}]

\* state[key] = value: the field is overwritten in the record itself
assign(c, key, value) == [c EXCEPT !.state[key] = value, !.changed = @ \cup {key}]

applySingleKeyNoEq(c0, key, value) ==
  LET c == [c0 EXCEPT !.commits = @ + 1]
  IN IF ObjectIs(c.state[key], value) THEN c
     ELSE notifyKey(assign(c, key, value), key)

\* eq(state[key], value): the call of a registered predicate, as it is logged
Asked(key, prev, value) ==
  [key |-> key, pred |-> equalityRegistry[key], prev |-> prev, next |-> value]

applySingleKey(c0, key, value) ==
  LET c == [c0 EXCEPT !.commits = @ + 1]
      asked == [c EXCEPT !.consulted = Append(@, Asked(key, c.state[key], value))]
  IN IF ObjectIs(c.state[key], value) THEN c
     ELSE IF EqThrows(equalityRegistry[key]) THEN [asked EXCEPT !.raised = TRUE]
     ELSE IF equalityRegistry[key] # "none"
             /\ EqHolds(equalityRegistry[key], c.state[key], value) THEN asked
     ELSE IF equalityRegistry[key] # "none"
     THEN notifyKey(assign(asked, key, value), key)
     ELSE notifyKey(assign(c, key, value), key)

\* the own keys of an update, in enumeration order
OwnKeys(u) == SelectSeq(KeyOrder, LAMBDA k : k \in DOMAIN u)

\* applyUpdate, phase 1: assign every changed field; the changed keys in
\* order, and whether a predicate threw and ended the loop
\* a phase 1 that asks the predicate before it compares identities
RECURSIVE assignKeysEqFirst(_, _, _)
assignKeysEqFirst(st, processedUpdate, ks) ==
  IF ks = <<>> THEN [state |-> st, changedKeys |-> <<>>, threw |-> FALSE, consulted |-> <<>>]
  ELSE LET key == Head(ks)
           asked == Asked(key, st[key], processedUpdate[key])
           skip == assignKeysEqFirst(st, processedUpdate, Tail(ks))
           done == assignKeysEqFirst([st EXCEPT ![key] = processedUpdate[key]],
                                     processedUpdate, Tail(ks))
       IN IF EqThrows(equalityRegistry[key])
          THEN [state |-> st, changedKeys |-> <<>>, threw |-> TRUE, consulted |-> <<asked>>]
          ELSE IF equalityRegistry[key] # "none"
                  /\ EqHolds(equalityRegistry[key], st[key], processedUpdate[key])
               THEN [skip EXCEPT !.consulted = <<asked>> \o @]
          ELSE IF ObjectIs(st[key], processedUpdate[key])
               THEN [skip EXCEPT !.consulted =
                                   (IF equalityRegistry[key] # "none" THEN <<asked>> ELSE <<>>) \o @]
          ELSE [state |-> done.state, changedKeys |-> <<key>> \o done.changedKeys,
                threw |-> done.threw,
                consulted |-> (IF equalityRegistry[key] # "none" THEN <<asked>> ELSE <<>>)
                                \o done.consulted]

RECURSIVE assignKeys(_, _, _)
assignKeys(st, processedUpdate, ks) ==
  IF ks = <<>> THEN [state |-> st, changedKeys |-> <<>>, threw |-> FALSE, consulted |-> <<>>]
  ELSE LET key == Head(ks)
           asked == Asked(key, st[key], processedUpdate[key])
           skip == assignKeys(st, processedUpdate, Tail(ks))
           done == assignKeys([st EXCEPT ![key] = processedUpdate[key]],
                              processedUpdate, Tail(ks))
       IN IF ObjectIs(st[key], processedUpdate[key]) THEN skip
          ELSE IF EqThrows(equalityRegistry[key])
               THEN [state |-> st, changedKeys |-> <<>>, threw |-> TRUE,
                     consulted |-> <<asked>>]
          ELSE IF equalityRegistry[key] # "none"
                  /\ EqHolds(equalityRegistry[key], st[key], processedUpdate[key])
               THEN [skip EXCEPT !.consulted = <<asked>> \o @]
          ELSE [state |-> done.state, changedKeys |-> <<key>> \o done.changedKeys,
                threw |-> done.threw,
                consulted |-> (IF equalityRegistry[key] # "none" THEN <<asked>> ELSE <<>>)
                                \o done.consulted]

\* a notification loop that forgets the notified set
RECURSIVE notifyEach(_, _)
notifyEach(changedKeys, c) ==
  IF changedKeys = <<>> THEN c
  ELSE notifyEach(Tail(changedKeys), forEachListener(keyListeners[Head(changedKeys)], c))

\* applyUpdate, phase 2 outside a batch: each listener once across the keys
RECURSIVE notifyOnce(_, _, _)
notifyOnce(changedKeys, notified, c) ==
  IF changedKeys = <<>> THEN c
  ELSE LET fresh == keyListeners[Head(changedKeys)] \ notified
       IN notifyOnce(Tail(changedKeys), notified \cup fresh, forEachListener(fresh, c))

notifyChanged(changedKeys, c) ==
  IF Len(changedKeys) = 1
  THEN forEachListener(keyListeners[changedKeys[1]], c)
  ELSE notifyOnce(changedKeys, {}, c)

Range(s) == {s[i] : i \in 1..Len(s)}

\* applyUpdate
\* an applyUpdate that notifies the listeners of each field as soon as the
\* field is assigned
RECURSIVE applyEach(_, _, _)
applyEach(c, processedUpdate, ks) ==
  IF ks = <<>> THEN c
  ELSE IF c.raised THEN c
  ELSE applyEach(applySingleKey(c, Head(ks), processedUpdate[Head(ks)]),
                 processedUpdate, Tail(ks))
applyUpdateInterleaved(c, processedUpdate) ==
  [applyEach(c, processedUpdate, OwnKeys(processedUpdate)) EXCEPT !.commits = c.commits + 1]

\* an applyUpdate that, inside a batch, does not record the changed fields
applyUpdateDropping(c, processedUpdate) ==
  LET r == assignKeys(c.state, processedUpdate, OwnKeys(processedUpdate))
      c1 == [c EXCEPT !.state = r.state, !.commits = @ + 1,
                      !.changed = @ \cup Range(r.changedKeys),
                      !.consulted = @ \o r.consulted]
  IN IF r.threw THEN [c1 EXCEPT !.raised = TRUE]
     ELSE IF Len(r.changedKeys) = 0 THEN c1
     ELSE IF c.batchedKeys # Null THEN c1
          ELSE [c1 EXCEPT !.calls = notifyChanged(r.changedKeys, c.calls),
                          !.observed = IF listenersOf(Range(r.changedKeys)) # {}
                                       THEN @ \cup {r.state} ELSE @]

applyUpdate(c, processedUpdate) ==
  LET r == assignKeys(c.state, processedUpdate, OwnKeys(processedUpdate))
      c1 == [c EXCEPT !.state = r.state, !.commits = @ + 1,
                      !.changed = @ \cup Range(r.changedKeys),
                      !.consulted = @ \o r.consulted]
  IN IF r.threw THEN [c1 EXCEPT !.raised = TRUE]
     ELSE IF Len(r.changedKeys) = 0 THEN c1
     ELSE IF c.batchedKeys # Null
          THEN [c1 EXCEPT !.batchedKeys = Some(c.batchedKeys[1] \cup Range(r.changedKeys))]
          ELSE [c1 EXCEPT !.calls = notifyChanged(r.changedKeys, c.calls),
                          !.observed = IF listenersOf(Range(r.changedKeys)) # {}
                                       THEN @ \cup {r.state} ELSE @]

\* middleware.splice(middleware.indexOf(middlewareItem), 1), when it is there
removeItem(mw, id) == SelectSeq(mw, LAMBDA m : m.id # id)

\* the start of runMiddleware: a replacement becomes the current update
replaceMerging(currentUpdate, modifiedUpdate) ==
  IF modifiedUpdate # Null
  THEN [k \in DOMAIN currentUpdate \cup DOMAIN modifiedUpdate[1] |->
          IF k \in DOMAIN modifiedUpdate[1] THEN modifiedUpdate[1][k] ELSE currentUpdate[k]]
  ELSE currentUpdate
replace(currentUpdate, modifiedUpdate) ==
  IF modifiedUpdate # Null THEN modifiedUpdate[1] ELSE currentUpdate

RECURSIVE runMiddleware(_, _, _)

\* next, the continuation handed to one interceptor invocation
nextUnguarded(c, nextCalled, modifiedUpdate, script) ==
  runMiddleware(c, modifiedUpdate, script)
next(c, nextCalled, modifiedUpdate, script) ==
  IF nextCalled THEN c ELSE runMiddleware(c, modifiedUpdate, script)

\* the interceptor createPersistenceMiddleware returns: it calls next once
\* and, before that, storage.setItem as the storage object behaves
Persist(mode) == [Beh(0, 1, "none", "none", "no") EXCEPT !.persist = mode]
StorageModes == {"ok", "throws", "rejects"}

\* storage.setItem(storageKey, JSON.stringify(value)): the call is logged; the
\* entry is written unless the storage object throws or rejects
setItem(c, key, value, mode) ==
  [c EXCEPT !.setItems = Append(@, [key |-> StorageKey(key), value |-> stringify(value),
                                    field |-> key, mode |-> mode]),
            !.storage = IF mode = "ok"
                        THEN [@ EXCEPT ![StorageKey(key)] = Some(stringify(value))]
                        ELSE @]

\* a middlewareFunction without the try/catch around setItem: the first
\* setItem that throws ends the callback
RECURSIVE setItemsUncaught(_, _, _, _)
setItemsUncaught(c, ks, update, mode) ==
  IF ks = <<>> THEN [c |-> c, threw |-> FALSE]
  ELSE IF mode = "throws"
       THEN [c |-> setItem(c, Head(ks), update[Head(ks)], mode), threw |-> TRUE]
       ELSE setItemsUncaught(setItem(c, Head(ks), update[Head(ks)], mode),
                             Tail(ks), update, mode)
middlewareFunctionUncaught(c, keys, update, mode) ==
  setItemsUncaught(c, SelectSeq(KeyOrder, LAMBDA k : k \in keys /\ k \in DOMAIN update),
                   update, mode)

\* the loop over changedKeys; what setItem throws is caught for each key
RECURSIVE setItems(_, _, _, _)
setItems(c, changedKeys, update, mode) ==
  IF changedKeys = <<>> THEN c
  ELSE setItems(setItem(c, Head(changedKeys), update[Head(changedKeys)], mode),
                Tail(changedKeys), update, mode)

\* middlewareFunction of createPersistenceMiddleware, up to its call of next
middlewareFunction(c, keys, update, mode) ==
  LET changedKeys == SelectSeq(KeyOrder, LAMBDA k : k \in keys /\ k \in DOMAIN update)
  IN [c |-> setItems(c, changedKeys, update, mode), threw |-> FALSE]

\* the argument of a call of next
Arg(a, update) == IF a = "none" THEN Null ELSE Some(Rewrite(a, update))

\* an invocation after which the chain goes on whether or not next was called
invokeContinuing(c, m, script) ==
  LET b == script[m.id]
      update == c.currentUpdate
      c1 == [c EXCEPT !.stages = Append(@, [id |-> m.id, keys |-> m.keys, ran |-> TRUE,
                                              beh |-> b, update |-> update,
                                              state |-> c.state]),
                      !.middleware = IF b.remove = 0 THEN @ ELSE removeItem(@, b.remove),
                      !.removed = IF b.remove = 0 THEN @ ELSE @ \cup {b.remove}]
      c2 == IF b.throws # "before"
            THEN next(c1, FALSE, Arg(b.arg, update), script) ELSE c1
      c3 == IF b.nexts >= 2 /\ b.throws # "before"
            THEN next(c2, TRUE, Arg(b.arg2, update), script) ELSE c2
  IN IF b.throws # "no" THEN [c3 EXCEPT !.blocked = TRUE] ELSE c3

\* currentMiddleware.callback(state, currentUpdate, next) inside its try/catch,
\* and the nextCalled test that follows
invoke(c, m, script) ==
  LET b == script[m.id]
      update == c.currentUpdate
      c0 == [c EXCEPT !.stages = Append(@, [id |-> m.id, keys |-> m.keys, ran |-> TRUE,
                                              beh |-> b, update |-> update,
                                              state |-> c.state]),
                      !.middleware = IF b.remove = 0 THEN @ ELSE removeItem(@, b.remove),
                      !.removed = IF b.remove = 0 THEN @ ELSE @ \cup {b.remove}]
      p == IF b.persist = "no" THEN [c |-> c0, threw |-> FALSE]
           ELSE middlewareFunction(c0, m.keys[1], update, b.persist)
      c1 == p.c
      throws == IF p.threw THEN "before" ELSE b.throws
      c2 == IF b.nexts >= 1 /\ throws # "before"
            THEN next(c1, FALSE, Arg(b.arg, update), script) ELSE c1
      c3 == IF b.nexts >= 2 /\ throws # "before"
            THEN next(c2, TRUE, Arg(b.arg2, update), script) ELSE c2
      nextCalled == b.nexts >= 1 /\ throws # "before"
  IN IF c2.raised THEN [c2 EXCEPT !.raised = FALSE, !.blocked = TRUE]
     ELSE IF throws # "no" THEN [c3 EXCEPT !.blocked = TRUE]
     ELSE IF ~nextCalled THEN [c3 EXCEPT !.blocked = TRUE]
     ELSE c3

\* the record of a stage whose interceptor is skipped
skipped(c, m) ==
  [id |-> m.id, keys |-> m.keys, ran |-> FALSE, beh |-> Beh(0, 0, "none", "none", "no"),
   update |-> c.currentUpdate, state |-> c.state]

\* whether the filter of an entry lets it run for an update
appliesAlways(keys, update) == TRUE
applies(keys, update) == keys = Null \/ \E key \in keys[1] : key \in DOMAIN update

\* runMiddleware
runMiddleware(c0, modifiedUpdate, script) ==
  LET c == [c0 EXCEPT !.currentUpdate = replace(@, modifiedUpdate)]
  IN IF c.middlewareIndex >= Len(c.middleware)
     THEN IF ~c.blocked THEN applyUpdate(c, c.currentUpdate) ELSE c
     ELSE LET currentMiddleware == c.middleware[c.middlewareIndex + 1]
              c1 == [c EXCEPT !.middlewareIndex = @ + 1]
          IN IF applies(currentMiddleware.keys, c1.currentUpdate)
             THEN invoke(c1, currentMiddleware, script)
             ELSE runMiddleware([c1 EXCEPT !.stages = Append(@, skipped(c1, currentMiddleware))],
                                Null, script)

\* a set that commits the update before it runs the chain
setCommitFirst(update, script) ==
  IF update = Null THEN Context(<<>>)
  ELSE IF Len(middleware) = 0 THEN applyUpdate(Context(update[1]), update[1])
  ELSE runMiddleware([applyUpdate(Context(update[1]), update[1]) EXCEPT !.commits = 0],
                     Null, script)

\* set: the context after set(update) with the interceptors behaving as script
set(update, script) ==
  IF update = Null THEN Context(<<>>)
  ELSE IF Len(middleware) = 0 THEN applyUpdate(Context(update[1]), update[1])
  ELSE runMiddleware(Context(update[1]), Null, script)

\* a setKey that never takes the chain
setKeyDirect(key, value, script) ==
  applySingleKey(Context([k \in {key} |-> value]), key, value)

\* setKey
setKey(key, value, script) ==
  IF Len(middleware) = 0
  THEN applySingleKey(Context([k \in {key} |-> value]), key, value)
  ELSE set(Some([k \in {key} |-> value]), script)

\* a fresh object identity: one that no value held by the store has
LiveRefs == {RefOf(state[k]) : k \in {j \in Keys : IsObj(state[j])}}
              \cup {RefOf(initialState[k]) : k \in {j \in Keys : IsObj(initialState[j])}}
              \cup {RefOf(watch.prev[k]) : k \in {j \in DOMAIN watch.prev : IsObj(watch.prev[j])}}
              \cup {RefOf(other.state[k]) : k \in {j \in DOMAIN other.state : IsObj(other.state[j])}}
FreshRef == CHOOSE r \in 0..Cardinality(LiveRefs) :
              r \notin LiveRefs /\ \A q \in 0..(r - 1) : q \in LiveRefs

\* { ...current, ...value }
Spread(content, value) ==
  [i \in {1, 2} |-> IF value[i] = -1 THEN content[i] ELSE value[i]]

\* merge
merge(key, value) == Obj(FreshRef, Spread(ContentOf(state[key]), value))

\* a mergeSet that stores the partial object as it is
mergeSetReplacing(key, value, script) ==
  set(Some([k \in {key} |-> Obj(FreshRef, Spread(<<-1, -1>>, value))]), script)

\* mergeSet
mergeSet(key, value, script) ==
  IF Len(middleware) = 0
  THEN applySingleKey(Context([k \in {key} |-> merge(key, value)]), key, merge(key, value))
  ELSE set(Some([k \in {key} |-> merge(key, value)]), script)

\* reset: keys is Null (omitted) or Some(the listed fields)
\* a reset that ignores its key list and restores every field
resetAll(keys, script) == set(Some([k \in Keys |-> initialState[k]]), script)

reset(keys, script) ==
  IF keys = Null THEN set(Some([k \in Keys |-> initialState[k]]), script)
  ELSE set(Some([k \in keys[1] |-> initialState[k]]), script)

\* ------------------------------------------------------------- history
\* The record of an operation: its kind and input, the store before it, and
\* what the context says it did.
Record(kind, update, c) ==
  [kind |-> kind, update |-> update, pre |-> state, inBatch |-> batchedKeys # Null,
   chain |-> middleware, removed |-> removed, final |-> c.currentUpdate,
   blocked |-> c.blocked, stages |-> c.stages, commits |-> c.commits,
   changed |-> c.changed, raised |-> c.raised, threw |-> FALSE, arg |-> Null,
   again |-> FALSE, consulted |-> c.consulted, observed |-> c.observed,
   setItems |-> c.setItems]

\* no operation is executing and the last one has returned
Idle ==
  [Record("idle", Null, Context(<<>>)) EXCEPT !.pre = <<>>, !.chain = <<>>,
                                               !.removed = {}, !.inBatch = FALSE]
Quiet == op.kind = "idle"

\* select
select(keys, st) == [k \in keys |-> st[k]]

\* no second store has been constructed
NoOther == [status |-> "none", stateRef |-> 0, state |-> <<>>]

\* no onChange registration has been made
NoWatch ==
  [status |-> "none", keys |-> {}, prev |-> <<>>, scheduled |-> FALSE, queued |-> 0,
   notified |-> 0, observed |-> <<>>, log |-> <<>>, delivered |-> <<>>]

\* callback(next, snapshot): the invocation is recorded with the values the
\* callback had seen before, the state and the registry at that moment, and
\* whether the unsubscribe function had been invoked
callback(w, nextValues, snapshot, st, registry) ==
  [w EXCEPT !.log = Append(@, [values |-> nextValues, prev |-> snapshot,
                                seen |-> w.observed, current |-> select(w.keys, st),
                                notified |-> w.notified,
                                registry |-> registry, status |-> w.status]),
            !.observed = nextValues]

\* a delivery that hands prev over without replacing it
microtaskStale(w, st, registry) ==
  LET hasChanges == \E key \in w.keys : ~ObjectIs(st[key], w.prev[key])
      cleared == [w EXCEPT !.scheduled = FALSE, !.queued = @ - 1]
  IN IF ~hasChanges THEN [cleared EXCEPT !.notified = 0]
     ELSE [callback(cleared, select(w.keys, st), w.prev, st, registry)
             EXCEPT !.notified = 0]

\* onChange, the function given to queueMicrotask
microtask(w, st, registry) ==
  LET hasChanges == \E key \in w.keys : ~ObjectIs(st[key], w.prev[key])
      cleared == [w EXCEPT !.scheduled = FALSE, !.queued = @ - 1]
  IN IF ~hasChanges THEN [cleared EXCEPT !.notified = 0]
     ELSE [callback([cleared EXCEPT !.prev = select(w.keys, st)],
                    select(w.keys, st), w.prev, st, registry) EXCEPT !.notified = 0]

\* the notifications of the running tick are counted up to this number
MaxNotified == 2
Counted(w) == [w EXCEPT !.notified = IF @ < MaxNotified THEN @ + 1 ELSE @]

\* a listener that delivers at once instead of scheduling a delivery
onChangeListenerEager(w, st, registry) ==
  microtask([Counted(w) EXCEPT !.queued = @ + 1], st, registry)

\* onChange, the listener it subscribes
onChangeListener(w, st, registry) ==
  IF w.scheduled THEN Counted(w)
  ELSE [Counted(w) EXCEPT !.scheduled = TRUE, !.queued = @ + 1]

\* the store has invoked the listener of onChange n times
RECURSIVE listenerInvoked(_, _, _, _)
listenerInvoked(w, n, st, registry) ==
  IF n = 0 THEN w
  ELSE listenerInvoked(onChangeListener(w, st, registry), n - 1, st, registry)

\* the microtask queue is run until it is empty
RECURSIVE drain(_, _, _)
drain(w, st, registry) ==
  IF w.queued = 0 THEN w
  ELSE drain(microtask(w, st, registry), st, registry)

\* the store takes over what an operation did
Commit(kind, update, c) ==
  /\ state' = c.state
  /\ stateRef' = c.stateRef
  /\ batchedKeys' = c.batchedKeys
  /\ middleware' = c.middleware
  /\ removed' = c.removed
  /\ calls' = c.calls
  /\ op' = Record(kind, update, c)
  /\ watch' = listenerInvoked(watch, c.calls["oc"], c.state, equalityRegistry)
  /\ storage' = c.storage
  /\ UNCHANGED <<other, debounceVars, unsubscribed, initialState, keyListeners, equalityRegistry, batchStack,
                 nextId, handles>>

\* ------------------------------------------------------------- actions
\* the values a caller may write to a field: numbers for a; for b the object
\* now stored, the initial object, or a new object literal
ValuesFor(key) ==
  IF key = "a" THEN NumVals
  ELSE {state[key], initialState[key]} \cup {Obj(FreshRef, ct) : ct \in Contents}

\* what the registered interceptors do during one write; a removal handle
\* exists only for an interceptor that has been registered
ScriptsOver(B) == [{m.id : m \in Range(middleware)} -> {b \in B : b.remove < nextId}]
Scripts == ScriptsOver(Behaviours)

Set(update, script) ==
  /\ Quiet
  /\ \E c \in {set(update, script)} : Commit("set", update, c)

SetKey(key, value, script) ==
  /\ Quiet
  /\ \E c \in {setKey(key, value, script)} :
       Commit("setKey", Some([k \in {key} |-> value]), c)

MergeSet(key, value, script) ==
  /\ Quiet
  /\ IsObj(state[key])
  /\ \E c \in {mergeSet(key, value, script)} :
       Commit("mergeSet", Some([k \in {key} |-> merge(key, value)]), c)

Reset(keys, script) ==
  /\ Quiet
  /\ \E c \in {reset(keys, script)} :
       Commit("reset",
              Some([k \in (IF keys = Null THEN Keys ELSE keys[1]) |-> initialState[k]]), c)

\* a merge that stores what it returns
MergeStoring(key, value) ==
  /\ Quiet
  /\ IsObj(state[key])
  /\ state' = [state EXCEPT ![key] = merge(key, value)]
  /\ op' = [Idle EXCEPT !.kind = "merge", !.pre = state, !.arg = Some(value),
                         !.final = [k \in {key} |-> merge(key, value)]]
  /\ calls' = NoCalls
  /\ UNCHANGED <<watch, other, storage, debounceVars, stateRef, unsubscribed, initialState, keyListeners, equalityRegistry,
                 batchedKeys, batchStack, middleware, nextId, removed, handles>>

\* merge(key, value): the merged object is returned to the caller
Merge(key, value) ==
  /\ Quiet
  /\ IsObj(state[key])
  /\ op' = [Idle EXCEPT !.kind = "merge", !.pre = state, !.arg = Some(value),
                         !.final = [k \in {key} |-> merge(key, value)]]
  /\ calls' = NoCalls
  /\ UNCHANGED <<watch, other, storage, debounceVars, stateRef, unsubscribed, state, initialState, keyListeners,
                 equalityRegistry, batchedKeys, batchStack, middleware, nextId, removed,
                 handles>>

\* subscribe(keys, listener); a listener may be passed to several subscribe
\* calls, with a different key list each time
Subscribe(keys, listener) ==
  /\ Quiet
  /\ <<keys, listener>> \notin handles
  /\ keyListeners' = [k \in Keys |-> IF k \in keys THEN keyListeners[k] \cup {listener}
                                     ELSE keyListeners[k]]
  /\ handles' = handles \cup {<<keys, listener>>}
  /\ op' = Idle
  /\ calls' = NoCalls
  /\ UNCHANGED <<watch, other, storage, debounceVars, stateRef, unsubscribed, state, initialState, equalityRegistry, batchedKeys, batchStack,
                 middleware, nextId, removed>>

\* the function returned by subscribe
Unsubscribe(h) ==
  /\ Quiet
  /\ keyListeners' = [k \in Keys |-> IF k \in h[1] THEN keyListeners[k] \ {h[2]}
                                     ELSE keyListeners[k]]
  /\ unsubscribed' = unsubscribed \cup {h}
  /\ op' = [Idle EXCEPT !.kind = "unsubscribe", !.arg = Some(h),
                         !.again = h \in unsubscribed]
  /\ calls' = NoCalls
  /\ watch' = IF h[2] = "oc" THEN [watch EXCEPT !.status = "unsubscribed"] ELSE watch
  /\ UNCHANGED <<other, storage, debounceVars, stateRef, state, initialState, equalityRegistry, batchedKeys, batchStack,
                 middleware, nextId, removed, handles>>

\* onChange(keys, callback): the values of the keys are captured and the
\* listener is subscribed; the function returned is the one subscribe returns
OnChange(keys) ==
  /\ Quiet
  /\ watch.status = "none"
  /\ watch' = [NoWatch EXCEPT !.status = "active", !.keys = keys,
                               !.prev = select(keys, state),
                               !.observed = select(keys, state)]
  /\ keyListeners' = [k \in Keys |-> IF k \in keys THEN keyListeners[k] \cup {"oc"}
                                     ELSE keyListeners[k]]
  /\ handles' = handles \cup {<<keys, "oc">>}
  /\ op' = Idle
  /\ calls' = NoCalls
  /\ UNCHANGED <<other, storage, debounceVars, stateRef, unsubscribed, state, initialState,
                 equalityRegistry, batchedKeys, batchStack, middleware, nextId, removed>>

\* the running task has ended and the microtask queue is run: what the
\* callback was handed since the previous checkpoint becomes the tick's
\* delivery
Microtask ==
  /\ Quiet
  /\ batchStack = <<>>
  /\ watch.queued > 0
  /\ \E w \in {drain(watch, state, equalityRegistry)} :
       watch' = [w EXCEPT !.delivered = w.log, !.log = <<>>]
  /\ op' = [Idle EXCEPT !.kind = "microtask", !.pre = state]
  /\ calls' = NoCalls
  /\ UNCHANGED <<other, storage, debounceVars, state, initialState, keyListeners, equalityRegistry,
                 batchedKeys, batchStack, middleware, nextId, removed, handles,
                 unsubscribed, stateRef>>

\* an addMiddleware that puts the new entry first
AddMiddlewareFirst(keys) ==
  /\ Quiet
  /\ nextId <= MaxMw
  /\ middleware' = <<[id |-> nextId, keys |-> keys]>> \o middleware
  /\ nextId' = nextId + 1
  /\ op' = Idle
  /\ calls' = NoCalls
  /\ UNCHANGED <<watch, other, storage, debounceVars, stateRef, unsubscribed, state, initialState, keyListeners, equalityRegistry, batchedKeys,
                 batchStack, removed, handles>>

\* addMiddleware(callback, keys), or addMiddleware([callback, keys])
AddMiddleware(keys) ==
  /\ Quiet
  /\ nextId <= MaxMw
  /\ middleware' = Append(middleware, [id |-> nextId, keys |-> keys])
  /\ nextId' = nextId + 1
  /\ op' = Idle
  /\ calls' = NoCalls
  /\ UNCHANGED <<watch, other, storage, debounceVars, stateRef, unsubscribed, state, initialState, keyListeners, equalityRegistry, batchedKeys,
                 batchStack, removed, handles>>

\* the function returned by addMiddleware, invoked between two writes
RemoveMiddleware(id) ==
  /\ Quiet
  /\ middleware' = removeItem(middleware, id)
  /\ removed' = removed \cup {id}
  /\ op' = Idle
  /\ calls' = NoCalls
  /\ UNCHANGED <<watch, other, storage, debounceVars, stateRef, unsubscribed, state, initialState, keyListeners, equalityRegistry, batchedKeys,
                 batchStack, nextId, handles>>

\* skipSetWhen(key, fn)
SkipSetWhen(key, fn) ==
  /\ Quiet
  /\ equalityRegistry' = [equalityRegistry EXCEPT ![key] = fn]
  /\ op' = [Idle EXCEPT !.kind = "skipSetWhen", !.arg = Some(<<key, fn>>)]
  /\ calls' = NoCalls
  /\ UNCHANGED <<watch, other, storage, debounceVars, stateRef, unsubscribed, state, initialState, keyListeners, batchedKeys, batchStack,
                 middleware, nextId, removed, handles>>

\* removeSkipSetWhen(key)
RemoveSkipSetWhen(key) ==
  /\ Quiet
  /\ equalityRegistry' = [equalityRegistry EXCEPT ![key] = "none"]
  /\ op' = [Idle EXCEPT !.kind = "removeSkipSetWhen", !.arg = Some(<<key, "none">>)]
  /\ calls' = NoCalls
  /\ UNCHANGED <<watch, other, storage, debounceVars, stateRef, unsubscribed, state, initialState, keyListeners, batchedKeys, batchStack,
                 middleware, nextId, removed, handles>>

\* a flush that forgets the notified set
flushEach(keys, c) == notifyEach(SelectSeq(KeyOrder, LAMBDA k : k \in keys), c)

\* batch, the finally block: each listener of an accumulated key, once
flush(keys, c) == notifyOnce(SelectSeq(KeyOrder, LAMBDA k : k \in keys), {}, c)

\* a batch that opens a scope of its own at every level
BatchEnterFresh ==
  /\ Quiet
  /\ Len(batchStack) < MaxDepth
  /\ batchStack' = Append(batchStack, "owner")
  /\ batchedKeys' = Some({})
  /\ op' = Idle
  /\ calls' = NoCalls
  /\ UNCHANGED <<watch, other, storage, debounceVars, stateRef, unsubscribed, state, initialState, keyListeners, equalityRegistry, middleware,
                 nextId, removed, handles>>

\* batch(fn) is entered: a nested call runs fn inline, the outermost one
\* creates the Set and owns the flush
BatchEnter ==
  /\ Quiet
  /\ Len(batchStack) < MaxDepth
  /\ batchStack' = Append(batchStack, IF batchedKeys # Null THEN "inline" ELSE "owner")
  /\ batchedKeys' = IF batchedKeys # Null THEN batchedKeys ELSE Some({})
  /\ op' = Idle
  /\ calls' = NoCalls
  /\ UNCHANGED <<watch, other, storage, debounceVars, stateRef, unsubscribed, state, initialState, keyListeners, equalityRegistry, middleware,
                 nextId, removed, handles>>

\* a batch whose flush is not in a finally block: a throw of fn skips it
BatchExitNoFinally(threw) ==
  /\ Quiet
  /\ Len(batchStack) > 0
  /\ LET frame == batchStack[Len(batchStack)]
         flushes == frame = "owner" /\ ~threw
     IN /\ batchStack' = SubSeq(batchStack, 1, Len(batchStack) - 1)
        /\ batchedKeys' = IF frame = "owner" THEN Null ELSE batchedKeys
        /\ calls' = IF flushes THEN flush(batchedKeys[1], NoCalls) ELSE NoCalls
        /\ op' = [Idle EXCEPT !.kind = "batchExit", !.pre = state, !.threw = threw,
                                !.raised = threw, !.inBatch = frame # "owner",
                                !.changed = IF frame = "owner" THEN batchedKeys[1] ELSE {}]
  /\ watch' = listenerInvoked(watch, calls'["oc"], state, equalityRegistry)
  /\ UNCHANGED <<other, storage, debounceVars, stateRef, unsubscribed, state, initialState, keyListeners, equalityRegistry, middleware,
                 nextId, removed, handles>>

\* fn returns or throws (threw) in the innermost batch call: an inline call
\* just returns or lets the throw pass, the owner runs its finally block and
\* then lets the throw pass
BatchExit(threw) ==
  /\ Quiet
  /\ Len(batchStack) > 0
  /\ LET frame == batchStack[Len(batchStack)]
     IN /\ batchStack' = SubSeq(batchStack, 1, Len(batchStack) - 1)
        /\ batchedKeys' = IF frame = "owner" THEN Null ELSE batchedKeys
        /\ calls' = IF frame = "owner" THEN flush(batchedKeys[1], NoCalls) ELSE NoCalls
        /\ op' = [Idle EXCEPT !.kind = "batchExit", !.pre = state, !.threw = threw,
                                !.raised = threw, !.inBatch = frame # "owner",
                                !.changed = IF frame = "owner" THEN batchedKeys[1] ELSE {}]
  /\ watch' = listenerInvoked(watch, calls'["oc"], state, equalityRegistry)
  /\ UNCHANGED <<other, storage, debounceVars, stateRef, unsubscribed, state, initialState, keyListeners, equalityRegistry, middleware,
                 nextId, removed, handles>>

\* An interceptor that returned without calling next calls it now, after
\* its invocation and the set have returned: the closure variables of that
\* set (currentUpdate, middlewareIndex, blocked) are as the set left them
LateNext(script) ==
  /\ op.kind \in {"set", "setKey", "mergeSet", "reset"}
  /\ Len(op.stages) > 0
  /\ op.stages[Len(op.stages)].ran
  /\ op.stages[Len(op.stages)].beh = Block
  /\ \E c \in {next([Context(op.final) EXCEPT !.middlewareIndex = Len(op.stages),
                                                !.blocked = TRUE,
                                                !.stages = op.stages],
                    FALSE, Null, script)} :
       /\ state' = c.state
       /\ stateRef' = c.stateRef
       /\ batchedKeys' = c.batchedKeys
       /\ middleware' = c.middleware
       /\ removed' = c.removed
       /\ calls' = c.calls
       /\ op' = [Record("lateNext", op.update, c) EXCEPT !.arg = Some(Len(op.stages))]
       /\ watch' = listenerInvoked(watch, c.calls["oc"], c.state, equalityRegistry)
       /\ storage' = c.storage
  /\ UNCHANGED <<other, debounceVars, unsubscribed, initialState, keyListeners,
                 equalityRegistry, batchStack, nextId, handles>>

\* a flush that leaves batching mode only after the last listener returned
BatchExitFlushThrowsLate(thrower, before) ==
  /\ Quiet
  /\ Len(batchStack) > 0
  /\ batchStack[Len(batchStack)] = "owner"
  /\ thrower \in listenersOf(batchedKeys[1])
  /\ before \subseteq listenersOf(batchedKeys[1]) \ {thrower}
  /\ batchStack' = SubSeq(batchStack, 1, Len(batchStack) - 1)
  /\ batchedKeys' = batchedKeys
  /\ calls' = forEachListener(before \cup {thrower}, NoCalls)
  /\ op' = [Idle EXCEPT !.kind = "batchAbort", !.pre = state, !.raised = TRUE,
                         !.changed = batchedKeys[1]]
  /\ watch' = listenerInvoked(watch, calls'["oc"], state, equalityRegistry)
  /\ UNCHANGED <<other, storage, debounceVars, stateRef, unsubscribed, state, initialState,
                 keyListeners, equalityRegistry, middleware, nextId, removed, handles>>

\* the outermost batch call ends and a listener throws during the flush:
\* the listeners in `before` had been invoked, the error ends the loop and
\* leaves batch; batchedKeys was set to null before the loop began
BatchExitFlushThrows(thrower, before) ==
  /\ Quiet
  /\ Len(batchStack) > 0
  /\ batchStack[Len(batchStack)] = "owner"
  /\ thrower \in listenersOf(batchedKeys[1])
  /\ before \subseteq listenersOf(batchedKeys[1]) \ {thrower}
  /\ batchStack' = SubSeq(batchStack, 1, Len(batchStack) - 1)
  /\ batchedKeys' = Null
  /\ calls' = forEachListener(before \cup {thrower}, NoCalls)
  /\ op' = [Idle EXCEPT !.kind = "batchAbort", !.pre = state, !.raised = TRUE,
                         !.changed = batchedKeys[1]]
  /\ watch' = listenerInvoked(watch, calls'["oc"], state, equalityRegistry)
  /\ UNCHANGED <<other, storage, debounceVars, stateRef, unsubscribed, state, initialState,
                 keyListeners, equalityRegistry, middleware, nextId, removed, handles>>

\* The operation has returned to its caller: its record is dropped.
Return ==
  /\ ~Quiet
  /\ op' = Idle
  /\ calls' = NoCalls
  /\ watch' = [watch EXCEPT !.delivered = <<>>]
  /\ UNCHANGED <<other, storage, debounceVars, stateRef, unsubscribed, state, initialState, keyListeners, equalityRegistry, batchedKeys,
                 batchStack, middleware, nextId, removed, handles>>

\* ------------------------------------------------------- specifications
\* createStoreState({ a: 0, b: { x: 0, y: 1 } })
Init ==
  /\ state = [k \in Keys |-> IF k = "a" THEN Num(0) ELSE Obj(0, <<0, 1>>)]
  /\ initialState = state
  /\ keyListeners = [k \in Keys |-> {}]
  /\ equalityRegistry = [k \in Keys |-> "none"]
  /\ batchedKeys = Null
  /\ batchStack = <<>>
  /\ middleware = <<>>
  /\ nextId = 1
  /\ removed = {}
  /\ handles = {}
  /\ unsubscribed = {}
  /\ stateRef = 0
  /\ debouncing = FALSE
  /\ storage = NoStorage
  /\ op = Idle
  /\ calls = NoCalls
  /\ watch = NoWatch
  /\ other = NoOther
  /\ debouncedNotifiers = [k \in Keys |-> Null]
  /\ timers = [k \in Keys |-> Null]
  /\ lastDebounced = [k \in Keys |-> Null]

\* the store after subscribe(['a'], l1) and subscribe(['a', 'b'], l2)
InitSubscribed ==
  /\ state = [k \in Keys |-> IF k = "a" THEN Num(0) ELSE Obj(0, <<0, 1>>)]
  /\ initialState = state
  /\ keyListeners = [k \in Keys |-> IF k = "a" THEN {"l1", "l2"} ELSE {"l2"}]
  /\ equalityRegistry = [k \in Keys |-> "none"]
  /\ batchedKeys = Null
  /\ batchStack = <<>>
  /\ middleware = <<>>
  /\ nextId = 1
  /\ removed = {}
  /\ handles = {<<{"a"}, "l1">>, <<{"a", "b"}, "l2">>}
  /\ unsubscribed = {}
  /\ stateRef = 0
  /\ debouncing = FALSE
  /\ storage = NoStorage
  /\ op = Idle
  /\ calls = NoCalls
  /\ watch = NoWatch
  /\ other = NoOther
  /\ debouncedNotifiers = [k \in Keys |-> Null]
  /\ timers = [k \in Keys |-> Null]
  /\ lastDebounced = [k \in Keys |-> Null]

\* the updates a caller may pass to set: null, or an object literal
UpdatesOver(A, B) ==
  {Null} \cup
  {Some(u) : u \in UNION {{v \in [D -> A \cup B] :
                              /\ "a" \in D => v["a"] \in A
                              /\ "b" \in D => v["b"] \in B} : D \in SUBSET Keys}}
Updates == UpdatesOver(NumVals, ValuesFor("b"))
ResetKeys == {Null} \cup {Some(K) : K \in SUBSET Keys}
\* the key lists the two listeners are subscribed with
KeyLists(listener) ==
  IF listener = "l1" THEN {{"a"}, {"a", "b"}}
  ELSE IF listener = "l2" THEN {{"b"}, {"a", "b"}}
  ELSE {}

\* the four writes, for every input
Writes ==
  \/ Quiet /\ \E update \in Updates, script \in Scripts : Set(update, script)
  \/ Quiet /\ \E key \in Keys, script \in Scripts : \E value \in ValuesFor(key) :
                SetKey(key, value, script)
  \/ Quiet /\ \E key \in Keys, value \in Partials, script \in Scripts :
                MergeSet(key, value, script)
  \/ Quiet /\ \E keys \in ResetKeys, script \in Scripts : Reset(keys, script)

\* the store without middleware: writes, subscriptions and batches
Next ==
  \/ Writes
  \/ \E listener \in Listeners : \E keys \in KeyLists(listener) :
        Subscribe(keys, listener)
  \/ \E h \in handles : Unsubscribe(h)
  \/ BatchEnter
  \/ \E threw \in BOOLEAN : BatchExit(threw)
  \/ Return

Spec == Init /\ [][Next]_vars

\* writes through the middleware chain, notifying two subscribed listeners
MwFilters == {Null, Some({"a"})}

\* b is written the object it holds or a new object { x: 1, y: 1 }
MwUpdates == UpdatesOver(NumVals, {state["b"], Obj(FreshRef, <<1, 1>>)})

NextMw ==
  \/ Quiet /\ \E update \in MwUpdates, script \in Scripts : Set(update, script)
  \/ Quiet /\ \E value \in NumVals, script \in Scripts : SetKey("a", value, script)
  \/ Quiet /\ \E script \in Scripts : MergeSet("b", <<1, -1>>, script)
  \/ Quiet /\ \E keys \in {Null, Some({"a"})}, script \in Scripts : Reset(keys, script)
  \/ \E keys \in MwFilters : AddMiddleware(keys)
  \/ \E id \in 1..(nextId - 1) : RemoveMiddleware(id)
  \/ Return

SpecMw == InitSubscribed /\ [][NextMw]_vars

\* the whole store: interceptors, equality predicates and batches together
FullBehaviours == {Pass, Block, ThrowAfter, Beh(0, 1, "onlyA1", "none", "no")}
FullScripts == ScriptsOver(FullBehaviours)
\* a is written a number; b the object it holds, or a new object with the
\* same or another content
FullValuesFor(key) ==
  IF key = "a" THEN NumVals
  ELSE {state["b"], Obj(FreshRef, ContentOf(state["b"])), Obj(FreshRef, <<1, 1>>)}
\* the predicates registered for a field: one that returns true, one that
\* throws and, for the object field, one that compares contents
FullPredicates(key) == IF key = "a" THEN {"always", "throws"} ELSE Predicates
FullUpdates == UpdatesOver(FullValuesFor("a"), FullValuesFor("b"))

\* the store with an onChange registration: writes without middleware, a
\* predicate on b, un-nested batches and microtask checkpoints
OnUpdates == UpdatesOver({Num(0), Num(1)}, ValuesFor("b"))
OnKeyLists == {{"b"}, {"a", "b"}}

NextOn ==
  \/ \E keys \in OnKeyLists : OnChange(keys)
  \/ Quiet /\ middleware = <<>> /\ \E update \in OnUpdates : Set(update, <<>>)
  \/ SkipSetWhen("b", "sameContent")
  \/ RemoveSkipSetWhen("b")
  \/ batchedKeys = Null /\ BatchEnter
  \/ BatchExit(FALSE)
  \/ \E h \in handles : Unsubscribe(h)
  \/ Microtask
  \/ Return

SpecOn == Init /\ [][NextOn]_vars

\* ---- the store with debounced notification ----

\* the longest delay a write asks for
MaxDelay == 2

\* the timing mode of set: false, true, or a number of time units
Immediate == <<"false", 0>>
Enabled == <<"true", 0>>
Ms(n) == <<"num", n>>
DelayArgs == {Immediate, Enabled} \cup {Ms(n) : n \in 0..MaxDelay}
\* typeof debounceDelay === 'number' ? debounceDelay : 0
delayOf(debounceDelay) == IF debounceDelay[1] = "num" THEN debounceDelay[2] ELSE 0

\* what applyUpdate works on
DebounceContext ==
  [state |-> state, calls |-> NoCalls, debouncedNotifiers |-> debouncedNotifiers,
   timers |-> timers, updatedKeys |-> <<>>]

\* a debounce that invokes fn on the leading edge as well
debouncedLeading(c, key) ==
  [c EXCEPT !.timers[key] = c.debouncedNotifiers[key],
            !.calls = forEachListener(keyListeners[key], c.calls)]

\* the function returned by debounce is invoked: clearTimeout, then
\* setTimeout(fn, delay) with the delay the notifier was created with
debounced(c, key) ==
  [c EXCEPT !.timers[key] = c.debouncedNotifiers[key]]

\* applyUpdate with a single notifier shared by every field
notifyUpdatedShared(c, key, debounceDelay) ==
  IF debounceDelay # Immediate
  THEN debounced(IF c.debouncedNotifiers["a"] = Null
                 THEN [c EXCEPT !.debouncedNotifiers["a"] = Some(delayOf(debounceDelay))]
                 ELSE c, "a")
  ELSE [c EXCEPT !.calls = forEachListener(keyListeners[key], c.calls)]

\* applyUpdate, the body of the loop over updatedKeys
notifyUpdated(c, key, debounceDelay) ==
  IF debounceDelay # Immediate
  THEN debounced(IF c.debouncedNotifiers[key] = Null
                 THEN [c EXCEPT !.debouncedNotifiers[key] = Some(delayOf(debounceDelay))]
                 ELSE c, key)
  ELSE [c EXCEPT !.calls = forEachListener(keyListeners[key], c.calls)]

RECURSIVE notifyUpdatedKeys(_, _, _)
notifyUpdatedKeys(c, updatedKeys, debounceDelay) ==
  IF updatedKeys = <<>> THEN c
  ELSE notifyUpdatedKeys(notifyUpdated(c, Head(updatedKeys), debounceDelay),
                         Tail(updatedKeys), debounceDelay)

\* applyUpdate, the loop over the keys of the update
RECURSIVE assignUpdated(_, _, _)
assignUpdated(c, keys, update) ==
  IF keys = <<>> THEN c
  ELSE LET key == Head(keys)
           currentValue == c.state[key]
           nextValue == update[key]
       IN IF ObjectIsStrict(currentValue, nextValue)
          THEN assignUpdated(c, Tail(keys), update)
          ELSE IF ~ObjectIs(currentValue, nextValue)
          THEN assignUpdated([c EXCEPT !.state[key] = nextValue,
                                       !.updatedKeys = Append(@, key)],
                             Tail(keys), update)
          ELSE assignUpdated(c, Tail(keys), update)

\* applyUpdate(processedUpdate, debounceDelay)
applyUpdateDebounce(processedUpdate, debounceDelay) ==
  LET c == assignUpdated(DebounceContext, OwnKeys(processedUpdate), processedUpdate)
  IN notifyUpdatedKeys(c, c.updatedKeys, debounceDelay)

\* set(update, debounceDelay) on a store without middleware
SetDebounce(update, debounceDelay) ==
  /\ Quiet
  /\ \E c \in {IF update = Null THEN DebounceContext
               ELSE applyUpdateDebounce(update[1], debounceDelay)} :
       /\ state' = c.state
       /\ calls' = c.calls
       /\ debouncedNotifiers' = c.debouncedNotifiers
       /\ timers' = c.timers
       /\ lastDebounced' =
            [k \in Keys |-> IF debounceDelay # Immediate /\ k \in Range(c.updatedKeys)
                            THEN Some(<<delayOf(debounceDelay), 0>>)
                            ELSE lastDebounced[k]]
       /\ op' = [Idle EXCEPT !.kind = "setDebounce", !.update = update, !.pre = state,
                              !.arg = Some(debounceDelay),
                              !.changed = Range(c.updatedKeys)]
  /\ UNCHANGED <<watch, other, storage, debouncing, initialState, keyListeners, equalityRegistry, batchedKeys,
                 batchStack, middleware, nextId, removed, handles, unsubscribed, stateRef>>

\* one unit of time passes; a timeout that is due runs first
Tick ==
  /\ Quiet
  /\ \E k \in Keys : timers[k] # Null
  /\ \A k \in Keys : timers[k] # Some(0)
  /\ timers' = [k \in Keys |-> IF timers[k] = Null THEN Null ELSE Some(timers[k][1] - 1)]
  /\ lastDebounced' =
       [k \in Keys |-> IF lastDebounced[k] = Null \/ timers[k] = Null THEN lastDebounced[k]
                       ELSE Some(<<lastDebounced[k][1][1], lastDebounced[k][1][2] + 1>>)]
  /\ UNCHANGED <<watch, other, storage, debouncing, state, initialState, keyListeners, equalityRegistry,
                 batchedKeys, batchStack, middleware, nextId, removed, handles,
                 unsubscribed, stateRef, op, calls, debouncedNotifiers>>

\* the timeout of key's notifier runs:
\* keyListeners.get(key)?.forEach(listener => listener())
Timeout(key) ==
  /\ Quiet
  /\ timers[key] = Some(0)
  /\ timers' = [timers EXCEPT ![key] = Null]
  /\ calls' = forEachListener(keyListeners[key], NoCalls)
  /\ lastDebounced' = [lastDebounced EXCEPT ![key] = Null]
  /\ op' = [Idle EXCEPT !.kind = "timeout", !.pre = state, !.changed = {key},
                         !.arg = lastDebounced[key]]
  /\ UNCHANGED <<watch, other, storage, debouncing, state, initialState, keyListeners, equalityRegistry,
                 batchedKeys, batchStack, middleware, nextId, removed, handles,
                 unsubscribed, stateRef, debouncedNotifiers>>

\* the debouncing store with a listener on each field
InitDebounce ==
  /\ state = [k \in Keys |-> IF k = "a" THEN Num(0) ELSE Obj(0, <<0, 1>>)]
  /\ initialState = state
  /\ keyListeners = [k \in Keys |-> IF k = "a" THEN {"l1"} ELSE {"l2"}]
  /\ equalityRegistry = [k \in Keys |-> "none"]
  /\ batchedKeys = Null
  /\ batchStack = <<>>
  /\ middleware = <<>>
  /\ nextId = 1
  /\ removed = {}
  /\ handles = {<<{"a"}, "l1">>, <<{"b"}, "l2">>}
  /\ unsubscribed = {}
  /\ stateRef = 0
  /\ debouncing = TRUE
  /\ storage = NoStorage
  /\ op = Idle
  /\ calls = NoCalls
  /\ watch = NoWatch
  /\ other = NoOther
  /\ debouncedNotifiers = [k \in Keys |-> Null]
  /\ timers = [k \in Keys |-> Null]
  /\ lastDebounced = [k \in Keys |-> Null]

NextDebounce ==
  \/ Quiet /\ \E update \in MwUpdates, debounceDelay \in DelayArgs :
                SetDebounce(update, debounceDelay)
  \/ Tick
  \/ \E key \in Keys : Timeout(key)
  \/ Return

SpecDebounce == InitDebounce /\ [][NextDebounce]_vars

\* ---- a second store instance ----

\* createStoreState(initialState) is called a second time, with the object
\* the first store was built from (same) or with a copy of it:
\* `let state = initialState` keeps the caller's object as the state record
CreateStore(same) ==
  /\ Quiet
  /\ other.status = "none"
  /\ other' = IF same THEN [status |-> "built", stateRef |-> stateRef, state |-> <<>>]
              ELSE [status |-> "built", stateRef |-> stateRef + 1, state |-> state]
  /\ op' = Idle
  /\ calls' = NoCalls
  /\ UNCHANGED <<watch, storage, debounceVars, state, initialState, keyListeners, equalityRegistry,
                 batchedKeys, batchStack, middleware, nextId, removed, handles,
                 unsubscribed, stateRef>>

\* get() of the second store: the record its `state` refers to
otherGet == IF other.stateRef = stateRef THEN state ELSE other.state

\* applyUpdate on the second store, which has no predicate and no listener
otherApply(st, update) ==
  [k \in Keys |-> IF k \in DOMAIN update /\ ~ObjectIs(st[k], update[k]) THEN update[k]
                  ELSE st[k]]

\* set(update) on the second store
OtherSet(update) ==
  /\ Quiet
  /\ other.status = "built"
  /\ IF other.stateRef = stateRef
     THEN state' = otherApply(state, update) /\ other' = other
     ELSE other' = [other EXCEPT !.state = otherApply(@, update)] /\ state' = state
  /\ op' = [Idle EXCEPT !.kind = "otherSet", !.update = Some(update), !.pre = state]
  /\ calls' = NoCalls
  /\ UNCHANGED <<watch, storage, debounceVars, initialState, keyListeners, equalityRegistry,
                 batchedKeys, batchStack, middleware, nextId, removed, handles,
                 unsubscribed, stateRef>>

\* two stores, without middleware: writes on both
NextTwo ==
  \/ \E same \in BOOLEAN : CreateStore(same)
  \/ Quiet /\ middleware = <<>> /\ \E update \in MwUpdates : Set(update, <<>>)
  \/ \E value \in NumVals : OtherSet([k \in {"a"} |-> value])
  \/ Return

SpecTwo == InitSubscribed /\ [][NextTwo]_vars

\* the store without middleware whose listeners may throw during a flush
NextBatch ==
  \/ Quiet /\ middleware = <<>> /\ \E update \in MwUpdates : Set(update, <<>>)
  \/ BatchEnter
  \/ \E threw \in BOOLEAN : BatchExit(threw)
  \/ \E thrower \in Listeners : \E before \in SUBSET Listeners :
        BatchExitFlushThrows(thrower, before)
  \/ Return

SpecBatch == InitSubscribed /\ [][NextBatch]_vars

\* the store with interceptors that may call next after they have returned
NextLate ==
  \/ Quiet /\ \E update \in MwUpdates, script \in FullScripts : Set(update, script)
  \/ \E keys \in MwFilters : nextId <= MaxChain /\ AddMiddleware(keys)
  \/ \E script \in FullScripts : LateNext(script)
  \/ Return

SpecLate == InitSubscribed /\ [][NextLate]_vars

\* reset of every field and of one field
FullResetKeys == {Null, Some({"b"})}

NextFull ==
  \/ Quiet /\ \E update \in FullUpdates, script \in FullScripts : Set(update, script)
  \/ Quiet /\ \E key \in Keys, script \in FullScripts : \E value \in FullValuesFor(key) :
                SetKey(key, value, script)
  \/ Quiet /\ \E value \in Partials, script \in FullScripts : MergeSet("b", value, script)
  \/ Quiet /\ \E keys \in FullResetKeys, script \in FullScripts : Reset(keys, script)
  \/ \E value \in Partials : Merge("b", value)
  \/ \E keys \in MwFilters : nextId <= MaxChain /\ AddMiddleware(keys)
  \/ \E key \in Keys : \E fn \in FullPredicates(key) : SkipSetWhen(key, fn)
  \/ \E key \in Keys : RemoveSkipSetWhen(key)
  \/ batchedKeys = Null /\ BatchEnter
  \/ \E threw \in BOOLEAN : BatchExit(threw)
  \/ Return

SpecFull == InitSubscribed /\ [][NextFull]_vars

\* ------------------------------------------------------------- claims
WriteKinds == {"set", "setKey", "mergeSet", "reset"}
IsWrite == op.kind \in WriteKinds
\* the listeners subscribed to at least one field of C, and only to field k
SubscribedTo(C) == {l \in Listeners : \E k \in C : l \in keyListeners[k]}
OnlyOn(k) == {l \in keyListeners[k] : \A j \in Keys \ {k} : l \notin keyListeners[j]}
\* the stages of the last write whose interceptor was invoked
Invoked == SelectSeq(op.stages, LAMBDA s : s.ran)
\* an invoked interceptor called next and returned normally
Proceeds(b) == b.nexts >= 1 /\ b.throws = "no"
\* what an invocation passed on with its first call of next
PassedOn(s) == IF s.beh.arg = "none" THEN s.update ELSE Rewrite(s.beh.arg, s.update)

\* C1: a write outside any batch that changes the fields C invokes every
\* listener subscribed to a field of C exactly once, and no other listener.
C1_EachListenerOnce ==
  (IsWrite /\ ~op.inBatch) =>
    \A l \in Listeners : calls[l] = IF l \in SubscribedTo(op.changed) THEN 1 ELSE 0

C1_Witness ==
  /\ IsWrite /\ ~op.inBatch
  /\ op.changed = {"a", "b"}
  /\ \E l \in Listeners : l \in keyListeners["a"] \cap keyListeners["b"] /\ calls[l] = 1
  /\ \E l \in Listeners : l \notin SubscribedTo(op.changed) /\ calls[l] = 0

\* C2 as stated: a write whose value for k is identical to k's current value
\* leaves k as it is and invokes no listener subscribed only to k.
C2_IdenticalInputIsNoOp ==
  (IsWrite /\ op.update # Null) =>
    \A k \in DOMAIN op.update[1] :
      op.update[1][k] = op.pre[k] =>
        /\ state[k] = op.pre[k]
        /\ \A l \in OnlyOn(k) : calls[l] = 0

\* C2, amended: when the value for k in the update that reaches the commit
\* (after the interceptors' replacements) is identical to k's current value,
\* k keeps its value and no listener subscribed only to k is invoked; a write
\* all of whose fields are identical leaves the whole state unchanged.
C2_IdenticalCommitIsNoOp ==
  (IsWrite /\ op.update # Null) =>
    /\ \A k \in DOMAIN op.final :
         op.final[k] = op.pre[k] =>
           /\ state[k] = op.pre[k]
           /\ k \notin op.changed
           /\ \A l \in OnlyOn(k) : calls[l] = 0
    /\ (\A k \in DOMAIN op.final : op.final[k] = op.pre[k]) =>
         state = op.pre /\ calls = NoCalls

C2_Witness ==
  /\ IsWrite /\ op.commits = 1
  /\ "a" \in DOMAIN op.final /\ op.final["a"] = NaN /\ op.pre["a"] = NaN
  /\ "l1" \in OnlyOn("a")
  /\ Len(Invoked) > 0

\* C3: when an interceptor returns without calling next, the write is
\* dropped: the state is unchanged, no listener is invoked, and no later
\* interceptor is invoked.
C3_NoProceedDrops ==
  IsWrite =>
    \A i \in 1..Len(op.stages) :
      (op.stages[i].ran /\ op.stages[i].beh.nexts = 0 /\ op.stages[i].beh.throws = "no") =>
        /\ state = op.pre
        /\ calls = NoCalls
        /\ op.commits = 0
        /\ i = Len(op.stages)

C3_Witness ==
  /\ IsWrite /\ Len(op.stages) = 2 /\ Len(op.chain) = 2
  /\ Proceeds(op.stages[1].beh)
  /\ op.stages[2].ran /\ op.stages[2].beh = Block
  /\ \E k \in DOMAIN op.final : op.final[k] # op.pre[k]

\* C4: when an interceptor throws, before or after calling next, the write
\* is blocked: the state is unchanged, no listener is invoked, the chain does
\* not continue, and set does not raise.
C4_ThrowBlocks ==
  IsWrite =>
    \A i \in 1..Len(op.stages) :
      (op.stages[i].ran /\ op.stages[i].beh.throws # "no") =>
        /\ state = op.pre
        /\ calls = NoCalls
        /\ i = Len(op.stages)
        /\ ~op.raised

\* C5: after next(replacement) every later stage and the commit see exactly
\* the replacement, so a field absent from it is not committed; after next()
\* they see the update unchanged.
C5_ReplacementReplaces ==
  IsWrite =>
    \A i \in 1..Len(op.stages) :
      LET s == op.stages[i]
      IN (s.ran /\ s.beh.nexts >= 1 /\ s.beh.throws # "before") =>
           IF i < Len(op.stages)
           THEN op.stages[i + 1].update = PassedOn(s)
           ELSE /\ op.final = PassedOn(s)
                /\ op.commits = 1
                /\ op.changed \subseteq DOMAIN PassedOn(s)
                /\ \A k \in Keys :
                     state[k] = IF k \in DOMAIN PassedOn(s) THEN PassedOn(s)[k]
                                ELSE op.pre[k]

C5_Witness ==
  /\ IsWrite /\ Len(op.stages) = 2
  /\ op.stages[1].ran /\ op.stages[1].beh.arg = "onlyA1"
  /\ op.stages[2].ran /\ op.stages[2].beh = Pass
  /\ DOMAIN op.update[1] = {"b"} /\ op.update[1]["b"] # op.pre["b"]
  /\ op.pre["a"] # Num(1)
  /\ state["b"] = op.pre["b"] /\ state["a"] = Num(1)

\* C6: a second call of next in one invocation has no effect: no interceptor
\* runs twice for a write, the update is committed at most once and is the
\* one the first call passed on, and each listener is invoked at most once.
C6_SecondProceedIgnored ==
  IsWrite =>
    /\ op.commits <= 1
    /\ \A l \in Listeners : calls[l] <= 1
    /\ \A i, j \in 1..Len(op.stages) : i # j => op.stages[i].id # op.stages[j].id
    /\ \A i \in 1..Len(op.stages) :
         (op.stages[i].ran /\ op.stages[i].beh.nexts = 2 /\ i = Len(op.stages)) =>
           /\ op.final = PassedOn(op.stages[i])
           /\ \A k \in Keys :
                state[k] = IF k \in DOMAIN op.final THEN op.final[k] ELSE op.pre[k]

C6_Witness ==
  /\ IsWrite /\ Len(op.stages) = 2
  /\ op.stages[1].ran /\ op.stages[1].beh = Pass
  /\ op.stages[2].ran /\ op.stages[2].beh = Twice
  /\ op.commits = 1
  /\ DOMAIN op.update[1] = {"b"} /\ op.changed = {"b"}
  /\ calls["l2"] = 1
  /\ op.pre["a"] # Num(1)

\* C7: the interceptors that run for a write run in the order of their
\* registration, an interceptor whose removal handle was invoked before the
\* write began does not run, and the update is committed all the same.
C7_RegistrationOrder ==
  IsWrite =>
    /\ \A i, j \in 1..Len(Invoked) : i < j => Invoked[i].id < Invoked[j].id
    /\ \A i \in 1..Len(op.stages) : op.stages[i].id \notin op.removed
    /\ (op.update # Null /\ \A i \in 1..Len(Invoked) : Proceeds(Invoked[i].beh))
         => op.commits = 1

C7_Witness ==
  /\ IsWrite /\ op.removed = {1} /\ Len(op.chain) = 2
  /\ Len(Invoked) = 2 /\ Invoked[1].id = 2 /\ Invoked[2].id = 3
  /\ op.commits = 1 /\ op.changed # {}

\* the entries of the chain as it was when the write began whose filter lets
\* them run for the update
Lineup == SelectSeq(op.chain, LAMBDA m : applies(m.keys, op.update[1]))

\* C8: when a removal handle is invoked while the chain is executing, the
\* write in flight still runs every interceptor registered when it began, in
\* order and once each (here: none of them blocks or replaces the update).
C8_InFlightRemovalKeepsLineup ==
  (/\ IsWrite /\ op.update # Null
   /\ \A i \in 1..Len(Invoked) :
        Proceeds(Invoked[i].beh) /\ Invoked[i].beh.arg = "none")
  => /\ Len(Invoked) = Len(Lineup)
     /\ \A i \in 1..Len(Invoked) : Invoked[i].id = Lineup[i].id

\* C9: a stage with a field filter runs its interceptor exactly when the
\* update, as replaced so far, has one of the filtered fields; a skipped stage
\* hands the update on unchanged and does not block the write.
C9_FilterOnCurrentUpdate ==
  IsWrite =>
    \A i \in 1..Len(op.stages) :
      LET s == op.stages[i]
      IN /\ s.ran <=> (s.keys = Null \/ s.keys[1] \cap DOMAIN s.update # {})
         /\ ~s.ran =>
              IF i < Len(op.stages)
              THEN op.stages[i + 1].update = s.update
              ELSE op.final = s.update /\ op.commits = 1

C9_Witness ==
  /\ IsWrite /\ Len(op.stages) = 2
  /\ "a" \in DOMAIN op.update[1] /\ "b" \in DOMAIN op.update[1]
  /\ op.stages[1].ran /\ op.stages[1].beh.arg = "dropA"
  /\ op.stages[2].keys = Some({"a"}) /\ ~op.stages[2].ran
  /\ op.commits = 1 /\ op.changed = {"b"}

\* C10: while a batch is open, a write updates the state at once and invokes
\* no listener, and nothing invokes a listener before the outermost batch
\* exits.
C10_BatchDefersNotification ==
  /\ batchedKeys # Null => calls = NoCalls
  /\ (IsWrite /\ op.inBatch /\ op.update # Null) =>
       /\ \A k \in DOMAIN op.update[1] : state[k] = op.update[1][k]
       /\ op.changed \subseteq batchedKeys[1]

C10_Witness ==
  /\ op.kind = "mergeSet" /\ op.inBatch /\ Len(batchStack) = 2
  /\ op.changed = {"b"} /\ keyListeners["b"] # {}
  /\ state["b"] # op.pre["b"]
  /\ "a" \in batchedKeys[1]

\* C11: when the outermost batch exits, every listener subscribed to a field
\* changed during the batch is invoked exactly once, however many writes and
\* changed fields map to it, and no other listener is invoked.
C11_FlushEachListenerOnce ==
  (op.kind = "batchExit" /\ ~op.inBatch) =>
    \A l \in Listeners : calls[l] = IF l \in SubscribedTo(op.changed) THEN 1 ELSE 0

C11_Witness ==
  /\ op.kind = "batchExit" /\ ~op.inBatch
  /\ op.changed = {"a", "b"}
  /\ \E l \in Listeners : l \in keyListeners["a"] \cap keyListeners["b"] /\ calls[l] = 1
  /\ \E l \in Listeners : l \notin SubscribedTo(op.changed) /\ calls[l] = 0

\* C12: when the body of the outermost batch throws, the changes made before
\* the throw stay in the state, every listener of a field changed before the
\* throw is invoked exactly once, the store leaves the batch, and the throw
\* reaches the caller of batch.
C12_FlushThenRethrow ==
  (op.kind = "batchExit" /\ ~op.inBatch /\ op.threw) =>
    /\ state = op.pre
    /\ batchedKeys = Null
    /\ \A l \in SubscribedTo(op.changed) : calls[l] = 1
    /\ op.raised

C12_Witness ==
  /\ op.kind = "batchExit" /\ ~op.inBatch /\ op.threw
  /\ op.changed # {} /\ state # initialState
  /\ \E l \in Listeners : calls[l] = 1

\* C13: the exit of a batch nested in another delivers nothing and keeps the
\* accumulated fields; the exit of the outermost batch delivers them, once to
\* each listener of one of them.
C13_NestedBatchInline ==
  [][Len(batchStack') < Len(batchStack) =>
       IF Len(batchStack') > 0
       THEN /\ batchedKeys' = batchedKeys
            /\ calls' = NoCalls
       ELSE /\ batchedKeys' = Null
            /\ \A l \in Listeners :
                 calls'[l] = IF l \in SubscribedTo(batchedKeys[1]) THEN 1 ELSE 0]_vars

C13_Witness ==
  /\ op.kind = "batchExit" /\ op.inBatch
  /\ Len(batchStack) = 1
  /\ batchedKeys # Null /\ batchedKeys[1] # {}
  /\ SubscribedTo(batchedKeys[1]) # {}
  /\ calls = NoCalls

\* the predicate registered for k returns true for the value the write
\* brings, returns false for it, or throws
Registered(k) == equalityRegistry[k] # "none"
ReturnsTrue(k) ==
  /\ Registered(k) /\ ~EqThrows(equalityRegistry[k])
  /\ EqHolds(equalityRegistry[k], op.pre[k], op.final[k])
ReturnsFalse(k) ==
  /\ Registered(k) /\ ~EqThrows(equalityRegistry[k])
  /\ ~EqHolds(equalityRegistry[k], op.pre[k], op.final[k])
\* no predicate consulted by the write throws
NoPredicateFault ==
  \A j \in DOMAIN op.final :
    op.final[j] # op.pre[j] => ~EqThrows(equalityRegistry[j])

C15_AllOrNothing ==
  IsWrite =>
    \/ state = op.pre
    \/ \A k \in DOMAIN op.final :
         \/ state[k] = op.final[k]
         \/ ReturnsTrue(k)

\* the subscribe calls whose function has not been invoked
Active == handles \ unsubscribed

\* C16: once the function returned by a subscribe call has been invoked, the
\* listener is not invoked through that subscription any more (it is invoked
\* only if another subscribe call that passed it is still active), and
\* invoking the function again changes nothing.
C16_UnsubscribeIdempotent ==
  [][/\ \A h \in unsubscribed' :
          (\A g \in Active' : g[2] # h[2]) => calls'[h[2]] = 0
     /\ (op'.kind = "unsubscribe" /\ op'.again) => keyListeners' = keyListeners]_vars

\* C17: the object returned by get() is the same in every state: no
\* operation replaces the state record.
C17_SameRecord == [][stateRef' = stateRef]_vars

C17_Witness ==
  /\ IsWrite /\ op.changed = {"a", "b"}
  /\ state["a"] # op.pre["a"] /\ state["b"] # op.pre["b"]
  /\ stateRef = 0

\* two executions of an operation end alike: the same state, the same
\* interceptor invocations, the same listener invocations and accumulated
\* fields, the same outcome for the caller
Same(c, d) ==
  /\ c.state = d.state /\ c.stateRef = d.stateRef
  /\ c.stages = d.stages /\ c.middleware = d.middleware
  /\ c.calls = d.calls /\ c.batchedKeys = d.batchedKeys
  /\ c.raised = d.raised

\* C18: in every state, with any chain, registry and batch context,
\* setKey(k, v) ends as set({k: v}) does.
C18_SetKeyIsSet ==
  Quiet =>
    \A key \in Keys, script \in FullScripts :
      \A value \in FullValuesFor(key) :
        Same(setKey(key, value, script), set(Some([k \in {key} |-> value]), script))

C18_Witness ==
  /\ op.kind = "setKey" /\ op.inBatch
  /\ Len(Invoked) = 2 /\ op.commits = 1
  /\ Registered("a") /\ Registered("b")
  /\ op.changed # {} /\ batchedKeys[1] # {}

\* C19: in every state, with any chain, registry and batch context,
\* mergeSet(k, p) ends as set({k: merge(k, p)}) does.
C19_MergeSetIsSetOfMerge ==
  Quiet =>
    \A script \in FullScripts, value \in Partials :
      Same(mergeSet("b", value, script),
           set(Some([k \in {"b"} |-> merge("b", value)]), script))

C19_Witness ==
  /\ op.kind = "mergeSet" /\ op.inBatch
  /\ Len(Invoked) = 2 /\ op.commits = 1
  /\ equalityRegistry["b"] = "sameContent"
  /\ op.changed = {"b"} /\ ContentOf(state["b"]) # ContentOf(op.pre["b"])

\* C20: merge(key, partial) returns a new object holding the fields of
\* key's value overwritten by those of partial, and leaves the store as it
\* is: no field, no stored reference, no registration changes, no interceptor
\* runs and no listener is invoked.
C20_MergeIsPure ==
  [][op'.kind = "merge" =>
       /\ state' = state /\ stateRef' = stateRef
       /\ keyListeners' = keyListeners /\ batchedKeys' = batchedKeys
       /\ middleware' = middleware /\ equalityRegistry' = equalityRegistry
       /\ calls' = NoCalls /\ op'.stages = <<>>
       /\ \A i \in {1, 2} :
            ContentOf(op'.final["b"])[i] =
              IF op'.arg[1][i] = -1 THEN ContentOf(state["b"])[i] ELSE op'.arg[1][i]
       /\ RefOf(op'.final["b"]) # RefOf(state["b"])]_vars

C20_Witness ==
  /\ op.kind = "merge" /\ op.arg = Some(<<1, -1>>)
  /\ ContentOf(op.final["b"]) = <<1, 1>> /\ ContentOf(state["b"]) = <<0, 1>>
  /\ Len(middleware) > 0 /\ keyListeners["b"] # {}

\* the store as it would be with one interceptor that calls next() once with
\* no argument and returns, running the update through the chain
passThrough(update) ==
  runMiddleware([Context(update) EXCEPT !.middleware = <<[id |-> nextId, keys |-> Null]>>],
                Null, [i \in {nextId} |-> Pass])
\* same final state, same listener invocations, same outcome for the caller
SameOutcome(c, d) ==
  /\ c.state = d.state /\ c.stateRef = d.stateRef
  /\ c.calls = d.calls /\ c.batchedKeys = d.batchedKeys
  /\ c.raised = d.raised

\* C22: on a store without middleware, set(update) ends in the same state,
\* with the same listener invocations and the same outcome for the caller
\* (normal return or propagated error) as it would on the same store with a
\* single interceptor that calls next() once without argument.
C22_EmptyChainIsPassThrough ==
  (Quiet /\ middleware = <<>>) =>
    \A update \in FullUpdates \ {Null} :
      SameOutcome(set(update, <<>>), passThrough(update[1]))

\* C23: a set whose update is absent or has no field changes no field and
\* notifies no listener, with or without middleware.
C23_EmptyUpdateIgnored ==
  (op.kind = "set" /\ (op.update = Null \/ DOMAIN op.update[1] = {})) =>
    /\ state = op.pre
    /\ calls = NoCalls

\* the fields a reset lists: all of them when the list is omitted
Listed == DOMAIN op.update[1]
\* every invoked interceptor passed the update on unchanged and returned
Untouched == \A i \in DOMAIN Invoked : Invoked[i].beh = Pass
\* the predicate registered for k returns true for the stored and the
\* construction-time value, which are not identical
Vetoed(k) ==
  /\ Registered(k) /\ ~ObjectIs(op.pre[k], initialState[k])
  /\ EqHolds(equalityRegistry[k], op.pre[k], initialState[k])
\* no predicate registered for a listed field throws
PredicatesReturn == \A k \in Listed : ~EqThrows(equalityRegistry[k])
\* the fields the reset gave another value
Restored == {k \in Keys : state[k] # op.pre[k]}

Deliveries == {watch.log[i] : i \in DOMAIN watch.log}
                \cup {watch.delivered[i] : i \in DOMAIN watch.delivered}

\* C24: the commits to the keys of an onChange registration made before a
\* microtask checkpoint lead to at most one invocation of the callback; the
\* invocation receives the values the requested keys have at that moment,
\* for exactly those keys, and the values the callback observed before
\* (those at registration, or those delivered last).
C24_OneDeliveryPerTick ==
  /\ Len(watch.log) <= 1 /\ Len(watch.delivered) <= 1
  /\ \A d \in Deliveries :
       /\ d.values = d.current
       /\ d.prev = d.seen

\* several commits in one tick, delivered once, after an earlier delivery
C24_Witness ==
  /\ Len(watch.delivered) = 1
  /\ watch.delivered[1].notified = MaxNotified
  /\ watch.keys = {"a", "b"}
  /\ watch.delivered[1].seen # select(watch.keys, initialState)
  /\ watch.delivered[1].values["a"] # watch.delivered[1].prev["a"]
  /\ watch.delivered[1].values["b"] # watch.delivered[1].prev["b"]
  /\ watch.delivered[1].values = select(watch.keys, state)

\* the commit path's test of a change: not identical, and the field's
\* predicate, if one is registered, does not return true
Changed(registry, prev, value) ==
  /\ ~ObjectIs(prev, value)
  /\ ~(registry # "none" /\ EqHolds(registry, prev, value))

\* C25: the onChange callback is invoked only if at that moment some
\* requested key's value differs from the value observed before under the
\* rule of the commit path: identity first, then the field's predicate.
C25_DeliveryOnlyOnChange ==
  \A d \in Deliveries :
    \E k \in watch.keys : Changed(d.registry[k], d.prev[k], d.values[k])

\* C26: once the function returned by onChange has been invoked, the
\* callback is not invoked any more, also when a delivery was scheduled
\* before.
C26_NoDeliveryAfterUnsubscribe ==
  \A d \in Deliveries : d.status # "unsubscribed"

\* the last operation was a set with a delay or true as its timing mode
IsDebounced == op.kind = "setDebounce" /\ op.arg # Some(Immediate)

\* C27: a set with a delay or true as timing mode stores the changed fields
\* before it returns and invokes no listener before it returns; the
\* notification of each changed field waits on the field's timer.
C27_DebouncedSetAssignsAtOnce ==
  (IsDebounced /\ op.update # Null) =>
    /\ \A k \in DOMAIN op.update[1] : state[k] = op.update[1][k]
    /\ \A k \in Keys \ DOMAIN op.update[1] : state[k] = op.pre[k]
    /\ op.changed = {k \in Keys : state[k] # op.pre[k]}
    /\ calls = NoCalls
    /\ \A k \in op.changed : timers[k] # Null

\* set({a: 1, b: {...}}, true) with listeners on both fields
C27_Witness ==
  /\ IsDebounced /\ op.arg = Some(Enabled)
  /\ op.changed = {"a", "b"}
  /\ keyListeners["a"] # {} /\ keyListeners["b"] # {}
  /\ timers = [k \in Keys |-> Some(0)]
  /\ state # op.pre /\ calls = NoCalls

\* C28: when the timer of field k runs its notification, the delay asked by
\* the last debounced write to k has elapsed since that write (the earlier
\* writes of the sequence having been superseded).
C28_AfterDelayOfLastWrite ==
  (op.kind = "timeout" /\ op.arg # Null) => op.arg[1][2] >= op.arg[1][1]

\* C29: a write that does not mention field B leaves B's notifier and B's
\* pending timer as they are and invokes no listener of B; an immediate
\* write invokes the listeners of the fields it changes before it returns,
\* whatever timers are pending.
C29_TimersPerField ==
  [][(op'.kind = "setDebounce" /\ op'.update # Null) =>
       /\ \A B \in Keys \ DOMAIN op'.update[1] :
            /\ timers'[B] = timers[B]
            /\ debouncedNotifiers'[B] = debouncedNotifiers[B]
            /\ \A l \in OnlyOn(B) : calls'[l] = 0
       /\ op'.arg = Some(Immediate) =>
            /\ timers' = timers
            /\ \A A \in op'.changed : \A l \in keyListeners[A] : calls'[l] >= 1]_vars

\* an immediate write to a while b's timer is pending, and a debounced one
C29_Witness ==
  /\ op.kind = "setDebounce" /\ op.changed = {"a"} /\ DOMAIN op.update[1] = {"a"}
  /\ timers["b"] = Some(1) /\ calls["l1"] = 1 /\ calls["l2"] = 0
  /\ op.arg = Some(Immediate) /\ timers["a"] = Some(2)

\* C30: two stores are independent: a write on the first store changes no
\* value that get() of the second returns, and a write on the second changes
\* no value of the first and invokes none of its listeners, however the
\* second store was constructed.
C30_StoresIndependent ==
  [][/\ (op'.kind \in WriteKinds /\ other.status = "built") => otherGet' = otherGet
     /\ op'.kind = "otherSet" => state' = state /\ calls' = NoCalls]_vars

\* C34: the prev argument of every invocation of an onChange callback is the
\* values argument of the invocation before it, and that of the first
\* invocation is what the requested keys held when onChange was called.
C34_PrevIsLastDelivered ==
  \A d \in Deliveries : d.prev = d.seen /\ DOMAIN d.prev = watch.keys

\* a second delivery, whose prev is neither the registration's values nor
\* the state before the last write
C34_Witness ==
  /\ Len(watch.delivered) = 1 /\ watch.keys = {"a", "b"}
  /\ watch.delivered[1].prev # select(watch.keys, initialState)
  /\ watch.delivered[1].prev = watch.delivered[1].seen
  /\ watch.delivered[1].values # watch.delivered[1].prev
  /\ watch.delivered[1].notified = MaxNotified

\* C35: every interceptor invoked for a write is handed the state as it was
\* before the write: nothing of the write is committed before the last
\* applicable interceptor has called next.
C35_InterceptorSeesPreState ==
  IsWrite =>
    /\ \A i \in 1..Len(op.stages) : op.stages[i].ran => op.stages[i].state = op.pre
    /\ op.commits <= 1

\* two interceptors ran, the second after the first called next, and the
\* write then changed the state
C35_Witness ==
  /\ IsWrite /\ Len(Invoked) = 2 /\ op.commits = 1
  /\ Invoked[1].beh = Twice /\ Invoked[2].beh = ThrowAfter
  /\ state # op.pre /\ Invoked[2].state = op.pre

\* C39: the function returned by one subscribe call does not stop the
\* notifications of another subscribe call that is still active, also when
\* both passed the same listener for the same field: a write outside a batch
\* that changes a field of an active subscription invokes its listener.
C39_RegistrationsIndependent ==
  (IsWrite /\ ~op.inBatch) =>
    \A h \in Active : h[1] \cap op.changed # {} => calls[h[2]] >= 1

\* C37: when no batch call is executing the store is not in batching mode:
\* once the outermost batch has returned or thrown, also through a listener
\* that throws during the flush, the accumulated fields are gone, and a
\* write made outside a batch invokes the listeners of the fields it changes
\* before it returns and accumulates nothing.
C37_NoBatchNoBatchingMode ==
  /\ batchStack = <<>> <=> batchedKeys = Null
  /\ (op.kind \in {"batchExit", "batchAbort"} /\ batchStack = <<>>) => batchedKeys = Null
  /\ (IsWrite /\ batchStack = <<>>) =>
       /\ ~op.inBatch
       /\ \A l \in SubscribedTo(op.changed) : calls[l] = 1

\* the outermost batch has ended through a listener that threw in the
\* flush, before the other listener was reached
C37_Witness ==
  /\ op.kind = "batchAbort" /\ op.raised /\ op.changed = {"a", "b"}
  /\ batchStack = <<>> /\ batchedKeys = Null
  /\ calls["l1"] = 1 /\ calls["l2"] = 0
  /\ state # initialState

\* C38: when an interceptor that returned without calling next calls it
\* later, the write stays dropped: no field changes, no listener is invoked,
\* and no interceptor registered after it is invoked for that write.
C38_LateProceedStaysDropped ==
  op.kind = "lateNext" =>
    /\ state = op.pre
    /\ calls = NoCalls
    /\ op.commits = 0
    /\ \A i \in (op.arg[1] + 1)..Len(op.stages) : ~op.stages[i].ran

\* C33: the predicate asked about field k in a commit is the one registered
\* last for k and not removed since; it is asked only when the new value is
\* not identical to the stored one, once, and about those two values; a
\* field without a registered predicate has none asked, whatever is
\* registered for other fields.
C33_RegisteredPredicateOnly ==
  /\ op.kind \in {"skipSetWhen", "removeSkipSetWhen"} =>
       equalityRegistry[op.arg[1][1]] = op.arg[1][2]
  /\ IsWrite =>
       /\ \A i \in DOMAIN op.consulted :
            LET e == op.consulted[i]
            IN /\ e.pred = equalityRegistry[e.key] /\ e.pred # "none"
               /\ ~ObjectIs(e.prev, e.next)
               /\ e.prev = op.pre[e.key] /\ e.next = op.final[e.key]
       /\ \A i, j \in DOMAIN op.consulted :
            i # j => op.consulted[i].key # op.consulted[j].key

\* a write of both fields with different predicates registered: b's is
\* asked about b, a's is not asked because the value of a is identical
C33_Witness ==
  /\ IsWrite /\ DOMAIN op.final = {"a", "b"}
  /\ equalityRegistry["a"] = "always" /\ equalityRegistry["b"] = "sameContent"
  /\ op.final["a"] = op.pre["a"]
  /\ Len(op.consulted) = 1 /\ op.consulted[1].key = "b"
  /\ op.consulted[1].pred = "sameContent"
  /\ state["b"] = op.final["b"] /\ state["b"] # op.pre["b"]

\* C36: a listener invoked by a set finds every field the set changes
\* already holding its new value: all assignments of an update come before
\* its first notification.
C36_NotifyAfterAllAssigned ==
  IsWrite => \A st \in op.observed : st = state

\* a set that changed both fields and invoked a listener of each
C36_Witness ==
  /\ op.kind = "set" /\ op.changed = {"a", "b"} /\ ~op.inBatch
  /\ op.observed = {state} /\ state # op.pre
  /\ \E l \in keyListeners["a"] \ keyListeners["b"] : calls[l] = 1
  /\ \E l \in keyListeners["b"] : calls[l] = 1

\* ------------------------------------------ a store with persisted fields
\* store.addMiddleware(createPersistenceMiddleware(storage, "app", keys)) is
\* the first registration; an interceptor of the caller may follow it
PersistedKeys == {{"a"}, {"a", "b"}}
PersistBehaviours == FullBehaviours \cup {Persist(mode) : mode \in StorageModes}
PersistScripts ==
  {script \in ScriptsOver(PersistBehaviours) :
     \A id \in DOMAIN script : (id = 1) <=> (script[id].persist # "no")}

NextPersist ==
  \/ Quiet /\ \E update \in MwUpdates, script \in PersistScripts : Set(update, script)
  \/ nextId = 1 /\ \E keys \in PersistedKeys : AddMiddleware(Some(keys))
  \/ nextId = 2 /\ AddMiddleware(Null)
  \/ Return

SpecPersist == InitSubscribed /\ [][NextPersist]_vars

\* the calls of setItem the last write made for field k
SetItemsFor(k) == SelectSeq(op.setItems, LAMBDA e : e.field = k)
\* setItem failed during the last write
SetItemFailed == \E i \in DOMAIN op.setItems : op.setItems[i].mode \in {"throws", "rejects"}

\* C31: when setItem throws or returns a promise that rejects, the set
\* does not raise, the interceptors registered after the persistence
\* middleware still run, and unless one of them stops the update it is
\* committed and the listeners of the changed fields are invoked before
\* the set returns.
C31_StorageFailureDoesNotBlock ==
  (op.kind = "set" /\ SetItemFailed) =>
    /\ ~op.raised
    /\ Len(op.stages) = Len(op.chain)
    /\ \A i \in DOMAIN op.stages :
         applies(op.stages[i].keys, op.stages[i].update) => op.stages[i].ran
    /\ (\A i \in DOMAIN op.stages : op.stages[i].ran => op.stages[i].beh.nexts >= 1) =>
         /\ op.commits = 1
         /\ \A k \in DOMAIN op.final : state[k] = op.final[k]
         /\ \A k \in Keys : state[k] # op.pre[k] =>
              \A l \in keyListeners[k] : calls[l] >= 1

\* setItem threw for both persisted fields; the interceptor registered
\* after the persistence middleware ran, both fields were committed and the
\* listeners invoked
C31_Witness ==
  /\ op.kind = "set" /\ Len(op.setItems) = 2
  /\ \A i \in DOMAIN op.setItems : op.setItems[i].mode = "throws"
  /\ Len(op.stages) = 2 /\ op.stages[2].ran /\ op.stages[2].id = 2
  /\ ~op.raised /\ op.changed = {"a", "b"}
  /\ \A k \in Keys : state[k] = op.final[k] /\ storage[StorageKey(k)] = Null
  /\ calls["l1"] = 1 /\ calls["l2"] = 1

\* C32: with a storage object that accepts every write, a set calls setItem
\* once for each persisted field whose value in the state it changes and
\* not at all for a persisted field whose value it leaves unchanged, and
\* the entry written for a field is the serialization of the field's value
\* in the state.
C32_SetItemOncePerChangedField ==
  (op.kind = "set" /\ Len(op.stages) > 0 /\ op.stages[1].ran
     /\ op.stages[1].beh.persist = "ok") =>
    /\ \A k \in op.stages[1].keys[1] :
         Len(SetItemsFor(k)) = IF state[k] # op.pre[k] THEN 1 ELSE 0
    /\ \A i \in DOMAIN op.setItems :
         /\ op.setItems[i].key = StorageKey(op.setItems[i].field)
         /\ storage[op.setItems[i].key] = Some(stringify(state[op.setItems[i].field]))

\* ------------------------------------------------- delivery of every change
\* Either store, written by a caller that also batches, subscribes and
\* unsubscribes (the store without timers) or asks for debounced
\* notification (the store with timers).
InitLive == InitSubscribed \/ InitDebounce

\* a is written 0 or 1, b a new object
LiveUpdates == UpdatesOver({Num(0), Num(1)}, {Obj(FreshRef, <<1, 1>>)}) \ {Null}
\* l1, subscribed to a, may subscribe to b as well
LiveSubscriptions == {<<{"b"}, "l1">>}

\* fn of the batch call at depth d returns or throws
BatchReturns(d) == Len(batchStack) = d /\ \E threw \in BOOLEAN : BatchExit(threw)
NextLive ==
  \/ ~debouncing /\ Quiet /\ \E update \in LiveUpdates : Set(update, <<>>)
  \/ ~debouncing /\ BatchEnter
  \/ ~debouncing /\ \E d \in 1..MaxDepth : BatchReturns(d)
  \/ ~debouncing /\ \E h \in LiveSubscriptions : Subscribe(h[1], h[2])
  \/ ~debouncing /\ \E h \in handles : Unsubscribe(h)
  \/ debouncing /\ Quiet /\ \E update \in LiveUpdates, debounceDelay \in DelayArgs :
                               SetDebounce(update, debounceDelay)
  \/ debouncing /\ Tick
  \/ debouncing /\ \E key \in Keys : Timeout(key)
  \/ Return

\* Every call returns, and the function passed to batch returns or throws
\* at every depth.
FairLive ==
  /\ WF_vars(Return)
  /\ \A d \in 1..MaxDepth : SF_vars(BatchReturns(d))
\* Timers eventually fire: no timeout stays pending, or is restarted, for ever.
TimersFire == \A k \in Keys : []<>(timers[k] = Null)

SpecLive == InitLive /\ [][NextLive]_vars /\ FairLive /\ TimersFire

\* the last operation committed a change of field k
Committed(k) == op.kind \in {"set", "setDebounce"} /\ k \in op.changed
\* the last operation invoked l where the store delivers: in a set outside
\* a batch, at the exit of the outermost batch, in an immediate set of the
\* debouncing store, or when a timeout fires
Delivered(l) ==
  /\ calls[l] >= 1
  /\ \/ op.kind = "set" /\ ~op.inBatch
     \/ op.kind = "batchExit" /\ batchStack = <<>>
     \/ op.kind = "setDebounce" /\ op.arg = Some(Immediate)
     \/ op.kind = "timeout"

\* C40: no committed change is lost: a commit that changes field k is
\* followed by an invocation of every listener subscribed to k, in the set
\* itself, at the exit of the outermost batch, or when k's timeout fires,
\* unless the listener is unsubscribed from k first.
C40_EveryChangeDelivered ==
  \A k \in Keys : \A l \in {"l1", "l2"} :
    (Committed(k) /\ l \in keyListeners[k]) ~> (Delivered(l) \/ l \notin keyListeners[k])

\* the outermost batch returns after a nested one and delivers the change
\* of both fields made inside
C40_Witness ==
  /\ op.kind = "batchExit" /\ batchStack = <<>> /\ op.changed = {"a", "b"}
  /\ calls["l1"] = 1 /\ calls["l2"] = 1

====
